---- MODULE Spec2Model ----
(***************************************************************************)
(* A model of thunar/thunar-gio-extensions.c: the wrappers around GIO that *)
(* Thunar uses for copying, free-space queries, checksums, permission      *)
(* changes, ancestor tests, file lists, display names, launching an        *)
(* application and locating a file.  Every wrapper is a sequential         *)
(* procedure;                                                              *)
(* each GIO call that can touch the file system is one step of it.  GIO    *)
(* itself is not part of the file: a call into it is modelled by the set   *)
(* of outcomes the library documents for it.                               *)
(***************************************************************************)
EXTENDS Integers, Sequences, FiniteSets, TLC

VARIABLES
  args,       \* the arguments of the running thunar_g_file_copy call
  copy,       \* its local variables and position
  fs,         \* the destination's parent directory: file -> content
  fs0,        \* that directory as it was when the call started
  err_loc,    \* the caller's GError* (what *error points to)
  cancelled,  \* whether the caller's GCancellable has been cancelled
  calls,      \* the GIO calls issued so far, in order
  fsp,        \* thunar_g_file_get_free_space
  xf,         \* thunar_g_file_set_executable_flags
  ck,         \* thunar_g_file_compare_checksum
  desc,       \* thunar_g_file_is_descendant
  gp,         \* thunar_g_file_list_get_parents
  sv,         \* thunar_g_file_list_to_stringv
  dn,         \* thunar_g_file_get_display_name and ..._remote
  al,         \* thunar_g_app_info_launch
  xdg,        \* thunar_g_file_is_in_xdg_data_dir
  ld          \* thunar_g_file_is_on_local_device

vars ==
  <<args, copy, fs, fs0, err_loc, cancelled, calls, fsp, xf, ck, desc,
    gp, sv, dn, al, xdg, ld>>

copy_vars == <<args, copy, fs, fs0, err_loc, cancelled, calls>>

query_vars == <<fsp, xf, ck, desc>>

list_vars == <<gp, sv, dn, al, xdg, ld>>

\* The value of a variable that the running procedure does not use.
Idle == "idle"

-----------------------------------------------------------------------------
(* Strings are byte strings, written run by run: <<c, n>> is n times the    *)
(* byte c, and no two neighbouring runs have the same byte.                 *)

Rep(c, n) == <<<<c, n>>>>

Concat(s, t) ==
  IF s = <<>> THEN t
  ELSE IF t = <<>> THEN s
  ELSE IF s[Len(s)][1] = t[1][1]
    THEN SubSeq(s, 1, Len(s) - 1) \o <<<<t[1][1], s[Len(s)][2] + t[1][2]>>>> \o Tail(t)
    ELSE s \o t

\* printf's "%.Ns": the first n bytes of s, all of s if it has no more.
RECURSIVE Truncate(_, _)
Truncate(s, n) ==
  IF s = <<>> \/ n = 0 THEN <<>>
  ELSE IF Head(s)[2] <= n
    THEN Concat(<<Head(s)>>, Truncate(Tail(s), n - Head(s)[2]))
    ELSE <<<<Head(s)[1], n>>>>

\* The suffix of the format "%.100s.partial~".
PartialSuffix ==
  <<<<".", 1>>, <<"p", 1>>, <<"a", 1>>, <<"r", 1>>, <<"t", 1>>, <<"i", 1>>,
    <<"a", 1>>, <<"l", 1>>, <<"~", 1>>>>

\* The precision of "%.100s".
PartialLimit == 100

\* The fallback g_strdup ("UNNAMED").
Unnamed == <<<<"U", 1>>, <<"N", 2>>, <<"A", 1>>, <<"M", 1>>, <<"E", 1>>, <<"D", 1>>>>

\* No string: a NULL gchar*.
NoName == <<>>

\* base_name, as lines 799-803 compute it from g_file_get_basename's result.
BaseName(basename) == IF basename = NoName THEN Unnamed ELSE basename

\* partial_name, as line 806 formats it.
PartialName(base_name) == Concat(Truncate(base_name, PartialLimit), PartialSuffix)

-----------------------------------------------------------------------------
(* The files.  A GFile is a handle; the handles of the destination's parent *)
(* directory are told apart by their basenames.                             *)

\* The length of a destination basename longer than the precision.
LongLen == 101

ShortName == Rep("d", 1)
LongName == Rep("a", LongLen)

Files == {"d", "d.partial~", "long", "a100.partial~"}

\* g_file_get_basename
GFileGetBasename(file) ==
  CASE file = "d" -> ShortName
    [] file = "d.partial~" -> Concat(ShortName, PartialSuffix)
    [] file = "long" -> LongName
    [] file = "a100.partial~" -> Concat(Rep("a", PartialLimit), PartialSuffix)

\* g_file_get_child (parent, name), parent being the destination's parent.
GFileGetChild(name) == CHOOSE f \in Files : GFileGetBasename(f) = name

\* The destinations tried: a short basename, one longer than the precision,
\* and one that ends in the suffix after as many bytes as the precision.
DestFiles == {"d", "long", "a100.partial~"}

\* The source file, which lives outside the destination's directory.
SourceFile == "source"

FileTypes == {"REGULAR", "DIRECTORY", "SPECIAL"}
CopyFlags == {"OVERWRITE", "NOFOLLOW_SYMLINKS"}

Absent == "absent"
Old == "old"      \* a file that was there before the call
Full == "full"    \* a complete copy of the source
Part == "part"    \* a copy of the source that stopped early

NULL == "NULL"
Caller == "caller"      \* the error location the caller passed
NoError == "none"       \* *error == NULL

Exists(name) == fs[name] # Absent

\* One GIO call as issued: the function, the file acted on, the flags, and
\* whether a cancellable, a progress callback and an error location were
\* passed; result is the error it raised, NoError when it succeeded.
Call(op, file, flags, cancellable, progress, error, result) ==
  [op |-> op, file |-> file, flags |-> flags, cancellable |-> cancellable,
   progress |-> progress, error |-> error, result |-> result]

\* g_set_error on the location error points to: nothing for a NULL location,
\* and a location that already holds an error keeps it.
SetError(error, e) ==
  IF error = NULL \/ e = NoError THEN err_loc
  ELSE IF err_loc = NoError THEN e ELSE err_loc

-----------------------------------------------------------------------------
(* GIO, as far as thunar_g_file_copy uses it.                               *)

\* g_file_query_info (source, standard::type): NULL or the type.
GFileQueryInfo(cancellable) ==
  IF cancellable /\ cancelled THEN {NULL} ELSE {NULL, args.source_type}

\* g_file_delete: the name is gone, or nothing changed and an error is raised.
GFileDelete(name, cancellable) ==
  IF cancellable /\ cancelled
    THEN {[fs |-> fs, err |-> "CANCELLED"]}
    ELSE IF ~Exists(name)
      THEN {[fs |-> fs, err |-> "NOT_FOUND"]}
      ELSE {[fs |-> [fs EXCEPT ![name] = Absent], err |-> NoError],
            [fs |-> fs, err |-> "FAILED"]}

\* g_file_copy, until it starts writing: it refuses an existing target without
\* G_FILE_COPY_OVERWRITE and a cancelled cancellable, and may fail to open the
\* target; otherwise the target now holds the beginning of the copy.
GFileCopyStart(target, flags, cancellable) ==
  IF cancellable /\ cancelled
    THEN {[fs |-> fs, err |-> "CANCELLED"]}
    ELSE IF Exists(target) /\ "OVERWRITE" \notin flags
      THEN {[fs |-> fs, err |-> "EXISTS"]}
      ELSE {[fs |-> [fs EXCEPT ![target] = Part], err |-> NoError],
            [fs |-> fs, err |-> "FAILED"]}

\* g_file_copy, from there to its return: the copy is complete, or it stopped
\* and the target is left incomplete or removed.
GFileCopyFinish(target, cancellable) ==
  {[fs |-> [fs EXCEPT ![target] = Full], err |-> NoError]}
  \cup {[fs |-> [fs EXCEPT ![target] = c], err |-> e] :
          c \in {Part, Absent},
          e \in {"FAILED"} \cup (IF cancellable /\ cancelled THEN {"CANCELLED"} ELSE {})}

\* g_file_set_display_name (file, display_name): the rename of file to its
\* sibling display_name; it refuses a name that is taken.
GFileSetDisplayName(file, display_name) ==
  LET new_file == GFileGetChild(display_name)
  IN IF ~Exists(file)
       THEN {[fs |-> fs, err |-> "NOT_FOUND"]}
       ELSE IF Exists(new_file)
         THEN {[fs |-> fs, err |-> "EXISTS"]}
         ELSE {[fs |-> [fs EXCEPT ![file] = Absent, ![new_file] = fs[file]],
                err |-> NoError],
               [fs |-> fs, err |-> "FAILED"]}

-----------------------------------------------------------------------------
(* thunar_g_file_copy                                                       *)

CopyArgs ==
  [source_type : FileTypes, destination : DestFiles, flags : SUBSET CopyFlags,
   use_partial : BOOLEAN, cancellable : BOOLEAN, progress_callback : BOOLEAN,
   error : BOOLEAN]

CopyInit ==
  /\ args \in CopyArgs
  /\ fs \in {f \in [Files -> {Absent, Old}] :
               \A n \in Files :
                 f[n] # Absent =>
                   n \in {args.destination,
                         GFileGetChild(PartialName(BaseName(GFileGetBasename(args.destination))))}}
  /\ fs0 = fs
  /\ copy = [pc |-> "query_info", use_partial |-> args.use_partial,
             error |-> IF args.error THEN Caller ELSE NULL, info |-> NULL,
             success |-> FALSE, base_name |-> NoName, partial |-> NULL,
             ret |-> FALSE]
  /\ err_loc = NoError
  /\ cancelled = FALSE
  /\ calls = <<>>
  /\ fsp = Idle /\ xf = Idle /\ ck = Idle /\ desc = Idle
  /\ gp = Idle /\ sv = Idle /\ dn = Idle /\ al = Idle /\ xdg = Idle /\ ld = Idle

\* The caller, or the progress callback, cancels the GCancellable.
Cancel ==
  /\ copy.pc # "done"
  /\ args.cancellable
  /\ ~cancelled
  /\ cancelled' = TRUE
  /\ UNCHANGED <<args, copy, fs, fs0, err_loc, calls, fsp, xf, ck, desc, list_vars>>

\* QueryInfo, had line 765 kept use_partial for every source whose type is known.
QueryInfo_AnyType ==
  /\ copy.pc = "query_info"
  /\ \E info \in IF copy.use_partial THEN GFileQueryInfo(args.cancellable) ELSE {NULL} :
       LET query_flags == args.flags \cap {"NOFOLLOW_SYMLINKS"}
           use_partial == info # NULL
       IN /\ calls' = IF copy.use_partial
                        THEN Append(calls, Call("g_file_query_info", SourceFile, query_flags,
                                                args.cancellable, FALSE, FALSE,
                                                IF info = NULL THEN "FAILED" ELSE NoError))
                        ELSE calls
          /\ copy' = [copy EXCEPT !.info = info, !.use_partial = use_partial,
                                  !.pc = IF use_partial THEN "check_destination"
                                                        ELSE "direct_copy"]
  /\ UNCHANGED <<args, fs, fs0, err_loc, cancelled, fsp, xf, ck, desc, list_vars>>

\* Lines 748-767: the type query and the decision for or against .partial~.
QueryInfo ==
  /\ copy.pc = "query_info"
  /\ \E info \in IF copy.use_partial THEN GFileQueryInfo(args.cancellable) ELSE {NULL} :
       LET query_flags == args.flags \cap {"NOFOLLOW_SYMLINKS"}
           use_partial == IF info = NULL THEN FALSE ELSE info = "REGULAR"
       IN /\ calls' = IF copy.use_partial
                        THEN Append(calls, Call("g_file_query_info", SourceFile, query_flags,
                                                args.cancellable, FALSE, FALSE,
                                                IF info = NULL THEN "FAILED" ELSE NoError))
                        ELSE calls
          /\ copy' = [copy EXCEPT !.info = info, !.use_partial = use_partial,
                                  !.pc = IF use_partial THEN "check_destination"
                                                        ELSE "direct_copy"]
  /\ UNCHANGED <<args, fs, fs0, err_loc, cancelled, fsp, xf, ck, desc, list_vars>>

\* Lines 769-773, g_file_copy up to its first write.
DirectCopyStart ==
  /\ copy.pc = "direct_copy"
  /\ \E o \in GFileCopyStart(args.destination, args.flags, args.cancellable) :
       /\ fs' = o.fs
       /\ IF o.err = NoError
            THEN /\ copy' = [copy EXCEPT !.pc = "direct_copy_finish"]
                 /\ UNCHANGED <<calls, err_loc>>
            ELSE /\ calls' = Append(calls, Call("g_file_copy", args.destination, args.flags,
                                                args.cancellable, args.progress_callback,
                                                copy.error # NULL, o.err))
                 /\ err_loc' = SetError(copy.error, o.err)
                 /\ copy' = [copy EXCEPT !.success = FALSE, !.ret = FALSE, !.pc = "done"]
  /\ UNCHANGED <<args, fs0, cancelled, fsp, xf, ck, desc, list_vars>>

\* Lines 769-773, the rest of g_file_copy and the return of its result.
DirectCopyFinish ==
  /\ copy.pc = "direct_copy_finish"
  /\ \E o \in GFileCopyFinish(args.destination, args.cancellable) :
       /\ fs' = o.fs
       /\ calls' = Append(calls, Call("g_file_copy", args.destination, args.flags,
                                      args.cancellable, args.progress_callback,
                                      copy.error # NULL, o.err))
       /\ err_loc' = SetError(copy.error, o.err)
       /\ copy' = [copy EXCEPT !.success = (o.err = NoError), !.ret = (o.err = NoError),
                               !.pc = "done"]
  /\ UNCHANGED <<args, fs0, cancelled, fsp, xf, ck, desc, list_vars>>

\* CheckDestination, had line 777 not asked for G_FILE_COPY_OVERWRITE.
CheckDestination_Overwriting ==
  /\ copy.pc = "check_destination"
  /\ copy' = [copy EXCEPT !.pc = IF Exists(args.destination) THEN "delete_destination"
                                                              ELSE "partial_name"]
  /\ UNCHANGED <<args, fs, fs0, err_loc, cancelled, calls, fsp, xf, ck, desc, list_vars>>

\* Lines 775-779 and 788-796: the destination is looked up; a destination that
\* exists without G_FILE_COPY_OVERWRITE ends the call with G_IO_ERROR_EXISTS.
CheckDestination ==
  /\ copy.pc = "check_destination"
  /\ IF Exists(args.destination)
       THEN IF "OVERWRITE" \in args.flags
              THEN /\ copy' = [copy EXCEPT !.pc = "delete_destination"]
                   /\ UNCHANGED err_loc
              ELSE /\ err_loc' = IF copy.error # NULL THEN "EXISTS" ELSE err_loc
                   /\ copy' = [copy EXCEPT !.ret = FALSE, !.pc = "done"]
       ELSE /\ copy' = [copy EXCEPT !.pc = "partial_name"]
            /\ UNCHANGED err_loc
  /\ UNCHANGED <<args, fs, fs0, cancelled, calls, fsp, xf, ck, desc, list_vars>>

\* Lines 780-787: the old destination is deleted.  The local error is set to
\* NULL before the delete and tested after it.
DeleteDestination ==
  /\ copy.pc = "delete_destination"
  /\ LET error == NULL
     IN \E o \in GFileDelete(args.destination, FALSE) :
          /\ fs' = o.fs
          /\ calls' = Append(calls, Call("g_file_delete", args.destination, {}, FALSE,
                                         FALSE, error # NULL, o.err))
          /\ err_loc' = IF copy.error # NULL THEN NoError ELSE err_loc
          /\ copy' = IF error # NULL
                       THEN [copy EXCEPT !.error = error, !.ret = FALSE, !.pc = "done"]
                       ELSE [copy EXCEPT !.error = error, !.pc = "partial_name"]
  /\ UNCHANGED <<args, fs0, cancelled, fsp, xf, ck, desc, list_vars>>

\* GeneratePartialName, had base_name itself been cut to the precision.
GeneratePartialName_Truncated ==
  /\ copy.pc = "partial_name"
  /\ LET base_name == Truncate(BaseName(GFileGetBasename(args.destination)), PartialLimit)
         partial_name == PartialName(base_name)
     IN copy' = [copy EXCEPT !.base_name = base_name,
                             !.partial = GFileGetChild(partial_name),
                             !.pc = "check_partial"]
  /\ UNCHANGED <<args, fs, fs0, err_loc, cancelled, calls, fsp, xf, ck, desc, list_vars>>

\* Lines 798-812: base_name and the .partial~ sibling.
GeneratePartialName ==
  /\ copy.pc = "partial_name"
  /\ LET base_name == BaseName(GFileGetBasename(args.destination))
         partial_name == PartialName(base_name)
     IN copy' = [copy EXCEPT !.base_name = base_name,
                             !.partial = GFileGetChild(partial_name),
                             !.pc = "check_partial"]
  /\ UNCHANGED <<args, fs, fs0, err_loc, cancelled, calls, fsp, xf, ck, desc, list_vars>>

\* Lines 814-816: a partial file that is already there is deleted.
CheckPartial ==
  /\ copy.pc = "check_partial"
  /\ IF Exists(copy.partial)
       THEN \E o \in GFileDelete(copy.partial, FALSE) :
              /\ fs' = o.fs
              /\ calls' = Append(calls, Call("g_file_delete", copy.partial, {}, FALSE,
                                             FALSE, copy.error # NULL, o.err))
              /\ err_loc' = SetError(copy.error, o.err)
       ELSE UNCHANGED <<fs, calls, err_loc>>
  /\ copy' = [copy EXCEPT !.pc = "copy_partial"]
  /\ UNCHANGED <<args, fs0, cancelled, fsp, xf, ck, desc, list_vars>>

\* Lines 818-819, g_file_copy to the partial file up to its first write.
CopyToPartialStart ==
  /\ copy.pc = "copy_partial"
  /\ \E o \in GFileCopyStart(copy.partial, args.flags, args.cancellable) :
       /\ fs' = o.fs
       /\ IF o.err = NoError
            THEN /\ copy' = [copy EXCEPT !.pc = "copy_partial_finish"]
                 /\ UNCHANGED <<calls, err_loc>>
            ELSE /\ calls' = Append(calls, Call("g_file_copy", copy.partial, args.flags,
                                                args.cancellable, args.progress_callback,
                                                copy.error # NULL, o.err))
                 /\ err_loc' = SetError(copy.error, o.err)
                 /\ copy' = [copy EXCEPT !.success = FALSE, !.pc = "cleanup"]
  /\ UNCHANGED <<args, fs0, cancelled, fsp, xf, ck, desc, list_vars>>

\* Lines 818-821 and 827, the rest of g_file_copy to the partial file.
CopyToPartialFinish ==
  /\ copy.pc = "copy_partial_finish"
  /\ \E o \in GFileCopyFinish(copy.partial, args.cancellable) :
       /\ fs' = o.fs
       /\ calls' = Append(calls, Call("g_file_copy", copy.partial, args.flags,
                                      args.cancellable, args.progress_callback,
                                      copy.error # NULL, o.err))
       /\ err_loc' = SetError(copy.error, o.err)
       /\ copy' = [copy EXCEPT !.success = (o.err = NoError),
                               !.pc = IF o.err = NoError THEN "rename" ELSE "cleanup"]
  /\ UNCHANGED <<args, fs0, cancelled, fsp, xf, ck, desc, list_vars>>

\* RenamePartial, had the rename of line 824 been left out.
RenamePartial_Skipped ==
  /\ copy.pc = "rename"
  /\ copy' = [copy EXCEPT !.pc = "return"]
  /\ UNCHANGED <<args, fs, fs0, err_loc, cancelled, calls, fsp, xf, ck, desc, list_vars>>

\* Lines 821-827: the partial file is renamed to base_name.
RenamePartial ==
  /\ copy.pc = "rename"
  /\ \E o \in GFileSetDisplayName(copy.partial, copy.base_name) :
       /\ fs' = o.fs
       /\ calls' = Append(calls, Call("g_file_set_display_name", copy.partial, {}, FALSE,
                                      FALSE, copy.error # NULL, o.err))
       /\ err_loc' = SetError(copy.error, o.err)
       /\ copy' = [copy EXCEPT !.success = (o.err = NoError),
                               !.pc = IF o.err = NoError THEN "return" ELSE "cleanup"]
  /\ UNCHANGED <<args, fs0, cancelled, fsp, xf, ck, desc, list_vars>>

\* RemovePartial, had line 833 passed the caller's cancellable on.
RemovePartial_Cancellable ==
  /\ copy.pc = "cleanup"
  /\ \E o \in GFileDelete(copy.partial, args.cancellable) :
       /\ fs' = o.fs
       /\ calls' = Append(calls, Call("g_file_delete", copy.partial, {}, args.cancellable,
                                      FALSE, FALSE, o.err))
  /\ copy' = [copy EXCEPT !.pc = "return"]
  /\ UNCHANGED <<args, fs0, err_loc, cancelled, fsp, xf, ck, desc, list_vars>>

\* Lines 827-834: the incomplete file is removed, whatever comes of it.
RemovePartial ==
  /\ copy.pc = "cleanup"
  /\ \E o \in GFileDelete(copy.partial, FALSE) :
       /\ fs' = o.fs
       /\ calls' = Append(calls, Call("g_file_delete", copy.partial, {}, FALSE, FALSE,
                                      FALSE, o.err))
  /\ copy' = [copy EXCEPT !.pc = "return"]
  /\ UNCHANGED <<args, fs0, err_loc, cancelled, fsp, xf, ck, desc, list_vars>>

\* Lines 836-838.
ReturnSuccess ==
  /\ copy.pc = "return"
  /\ copy' = [copy EXCEPT !.ret = copy.success, !.pc = "done"]
  /\ UNCHANGED <<args, fs, fs0, err_loc, cancelled, calls, fsp, xf, ck, desc, list_vars>>

CopyNext ==
  \/ Cancel
  \/ QueryInfo
  \/ DirectCopyStart
  \/ DirectCopyFinish
  \/ CheckDestination
  \/ DeleteDestination
  \/ GeneratePartialName
  \/ CheckPartial
  \/ CopyToPartialStart
  \/ CopyToPartialFinish
  \/ RenamePartial
  \/ RemovePartial
  \/ ReturnSuccess

SpecCopy == CopyInit /\ [][CopyNext]_vars

-----------------------------------------------------------------------------
(* Properties of thunar_g_file_copy                                         *)

Done == copy.pc = "done"

\* The call took the .partial~ path: the decision of lines 759-767 was made
\* and was for it.
PartialMode == copy.pc # "query_info" /\ copy.use_partial

\* The partial file of the call's destination.
DestPartial == GFileGetChild(PartialName(BaseName(GFileGetBasename(args.destination))))

\* The calls of one GIO function among those issued.
CallsOf(op) == {i \in DOMAIN calls : calls[i].op = op}

\* The copy or the rename failed (or was cancelled).
CopyOrRenameFailed ==
  \E i \in CallsOf("g_file_copy") \cup CallsOf("g_file_set_display_name") :
    calls[i].result # NoError

\* C1: a partial-mode call whose destination did not exist and that returns
\* TRUE leaves the complete copy under the destination's name and nothing under
\* the partial name, and every rename it issued came after a successful copy
\* to the partial file.
C1_PartialThenRename ==
  (Done /\ PartialMode /\ fs0[args.destination] = Absent /\ copy.ret) =>
    /\ fs[args.destination] = Full
    /\ fs[DestPartial] = Absent
    /\ CallsOf("g_file_set_display_name") # {}
    /\ \A j \in CallsOf("g_file_set_display_name") :
         /\ calls[j].file = DestPartial
         /\ \E i \in CallsOf("g_file_copy") :
              i < j /\ calls[i].file = DestPartial /\ calls[i].result = NoError

\* C1 witness: such a call returned TRUE after replacing a stale partial file.
C1_Witness ==
  /\ Done /\ PartialMode /\ copy.ret
  /\ fs0[args.destination] = Absent /\ fs0[DestPartial] = Old
  /\ fs[args.destination] = Full

\* C2: in partial mode the destination's name never holds an incomplete copy.
C2_FinalNameNeverIncomplete ==
  PartialMode => fs[args.destination] # Part

\* C3: a partial-mode call over an existing destination with
\* G_FILE_COPY_OVERWRITE that returns FALSE leaves the destination as it was.
C3_DestinationKeptOnFailure ==
  (Done /\ PartialMode /\ fs0[args.destination] = Old
        /\ "OVERWRITE" \in args.flags /\ ~copy.ret) =>
    fs[args.destination] = fs0[args.destination]

\* C4: when the copy to the partial file or the rename failed, the call
\* returns FALSE, and what it issued after the copy is the rename (if the copy
\* succeeded) and exactly one g_file_delete of the partial file, the last call,
\* passed neither the cancellable nor an error location; if that delete
\* succeeded no partial file is left.
C4_CleanupOnFailure ==
  (Done /\ PartialMode /\ CopyOrRenameFailed) =>
    LET n == Len(calls)
        c == CHOOSE i \in CallsOf("g_file_copy") : TRUE
    IN /\ ~copy.ret
       /\ {i \in CallsOf("g_file_delete") : i > c} = {n}
       /\ calls[n] = Call("g_file_delete", DestPartial, {}, FALSE, FALSE, FALSE,
                          calls[n].result)
       /\ calls[n].result = NoError => fs[DestPartial] = Absent

\* C4 witness: a cancelled copy whose partial file was removed.
C4_Witness ==
  /\ Done /\ PartialMode /\ cancelled
  /\ \E i \in CallsOf("g_file_copy") : calls[i].result = "CANCELLED"
  /\ calls[Len(calls)].op = "g_file_delete"
  /\ calls[Len(calls)].result = NoError
  /\ fs[DestPartial] = Absent

\* The errors that were raised during the call: those of the GIO calls, and
\* the G_IO_ERROR_EXISTS the function raises itself.
RaisedErrors ==
  ({calls[i].result : i \in DOMAIN calls} \ {NoError})
  \cup (IF PartialMode /\ fs0[args.destination] # Absent /\ "OVERWRITE" \notin args.flags
          THEN {"EXISTS"} ELSE {})

\* C5: a call that returns FALSE and was given an error location leaves in it
\* an error raised during the call.
C5_ErrorPropagated ==
  (Done /\ ~copy.ret /\ args.error) => err_loc \in RaisedErrors

\* The partial step is bypassed: use_partial is FALSE, the source is no
\* regular file, or its type could not be queried.
Bypass ==
  \/ ~args.use_partial
  \/ args.source_type # "REGULAR"
  \/ \E i \in CallsOf("g_file_query_info") : calls[i].result # NoError

\* C6: a bypassing call issues one g_file_copy from the source to the
\* destination with the caller's flags, cancellable, progress callback and
\* error location, returns its result, issues no delete and no rename, and
\* changes no other name of the directory.
C6_BypassCopiesDirectly ==
  (Done /\ Bypass) =>
    /\ Cardinality(CallsOf("g_file_copy")) = 1
    /\ \A i \in CallsOf("g_file_copy") :
         /\ calls[i] = Call("g_file_copy", args.destination, args.flags, args.cancellable,
                            args.progress_callback, args.error, calls[i].result)
         /\ copy.ret = (calls[i].result = NoError)
         /\ args.error => err_loc = calls[i].result
    /\ CallsOf("g_file_delete") = {}
    /\ CallsOf("g_file_set_display_name") = {}
    /\ \A n \in Files \ {args.destination} : fs[n] = fs0[n]

\* C6 witness: a directory copied with use_partial set.
C6_Witness ==
  /\ Done /\ args.use_partial /\ args.source_type = "DIRECTORY" /\ copy.ret
  /\ Len(calls) = 2
  /\ fs[args.destination] = Full

\* The bytes of a string, one by one.
RECURSIVE Bytes(_)
Bytes(s) ==
  IF s = <<>> THEN <<>>
  ELSE [i \in 1..Head(s)[2] |-> Head(s)[1]] \o Bytes(Tail(s))

\* The first n elements of a sequence, all of it if it has no more.
FirstN(q, n) == SubSeq(q, 1, IF Len(q) < n THEN Len(q) ELSE n)

\* The partial file has been named (line 812 is past).
PartialNamed == copy.pc # "query_info" /\ copy.partial # NULL

\* g_file_copy to the partial file has started.
PartialCopyStarted ==
  \/ copy.pc = "copy_partial_finish"
  \/ \E i \in CallsOf("g_file_copy") : calls[i].file = DestPartial

ExistsWithoutOverwrite ==
  fs0[args.destination] # Absent /\ "OVERWRITE" \notin args.flags

\* C20: a partial-mode call whose destination exists and that was not given
\* G_FILE_COPY_OVERWRITE issues no delete, no copy and no rename and leaves the
\* directory as it was, and it returns FALSE with G_IO_ERROR_EXISTS in the
\* caller's error location if there is one.
C20_ExistsWithoutOverwrite ==
  (PartialMode /\ ExistsWithoutOverwrite) =>
    /\ fs = fs0
    /\ CallsOf("g_file_delete") = {}
    /\ CallsOf("g_file_copy") = {}
    /\ CallsOf("g_file_set_display_name") = {}
    /\ copy.pc \in {"check_destination", "done"}
    /\ Done => (~copy.ret /\ (args.error => err_loc = "EXISTS"))

\* C20 witness: such a call returned with the error in the caller's location.
C20_Witness ==
  /\ Done /\ PartialMode /\ ExistsWithoutOverwrite
  /\ args.error /\ err_loc = "EXISTS" /\ ~copy.ret
  /\ fs[args.destination] = Old

-----------------------------------------------------------------------------
(* thunar_g_file_get_free_space                                             *)

\* The largest byte count a file system reports.
MaxBytes == 2

FsAttributes == {"filesystem::free", "filesystem::size"}

\* The GFileInfo objects g_file_query_filesystem_info can hand out: the
\* attributes that are set, with their values.
FilesystemInfos ==
  UNION {[present -> 0..MaxBytes] : present \in SUBSET FsAttributes}

\* g_file_info_has_attribute
HasAttribute(info, attribute) == attribute \in DOMAIN info

\* g_file_info_get_attribute_uint64: 0 for an attribute that is not set.
GetAttributeUint64(info, attribute) ==
  IF attribute \in DOMAIN info THEN info[attribute] ELSE 0

\* query_ok and attributes are the file system's answer; fs_free_return and
\* fs_size_return tell whether the caller passed the location; free_out and
\* size_out are what the locations hold (written says whether they were set).
FreeSpaceInit ==
  /\ args = Idle /\ copy = Idle /\ fs = Idle /\ fs0 = Idle
  /\ err_loc = Idle /\ cancelled = Idle /\ calls = Idle
  /\ xf = Idle /\ ck = Idle /\ desc = Idle
  /\ gp = Idle /\ sv = Idle /\ dn = Idle /\ al = Idle /\ xdg = Idle /\ ld = Idle
  /\ \E query_ok \in BOOLEAN, attributes \in FilesystemInfos,
        fs_free_return \in BOOLEAN, fs_size_return \in BOOLEAN :
       fsp = [pc |-> "query", query_ok |-> query_ok, attributes |-> attributes,
              fs_free_return |-> fs_free_return, fs_size_return |-> fs_size_return,
              filesystem_info |-> NULL, success |-> FALSE,
              free_out |-> 0, size_out |-> 0, written |-> {}, ret |-> FALSE]

\* Lines 635-643: success = FALSE and the query.
QueryFilesystemInfo ==
  /\ fsp.pc = "query"
  /\ LET filesystem_info == IF fsp.query_ok THEN "info" ELSE NULL
     IN fsp' = [fsp EXCEPT !.filesystem_info = filesystem_info, !.success = FALSE,
                           !.pc = IF filesystem_info # NULL THEN "free" ELSE "return"]
  /\ UNCHANGED <<copy_vars, xf, ck, desc, list_vars>>

\* Lines 645-649.
ReadFilesystemFree ==
  /\ fsp.pc = "free"
  /\ fsp' = IF fsp.fs_free_return
              THEN [fsp EXCEPT
                      !.free_out = GetAttributeUint64(fsp.attributes, "filesystem::free"),
                      !.written = @ \cup {"fs_free_return"},
                      !.success = HasAttribute(fsp.attributes, "filesystem::free"),
                      !.pc = "size"]
              ELSE [fsp EXCEPT !.pc = "size"]
  /\ UNCHANGED <<copy_vars, xf, ck, desc, list_vars>>

\* Lines 651-655.
ReadFilesystemSize ==
  /\ fsp.pc = "size"
  /\ fsp' = IF fsp.fs_size_return
              THEN [fsp EXCEPT
                      !.size_out = GetAttributeUint64(fsp.attributes, "filesystem::size"),
                      !.written = @ \cup {"fs_size_return"},
                      !.success = HasAttribute(fsp.attributes, "filesystem::size"),
                      !.pc = "return"]
              ELSE [fsp EXCEPT !.pc = "return"]
  /\ UNCHANGED <<copy_vars, xf, ck, desc, list_vars>>

\* Lines 657-660.
ReturnFreeSpace ==
  /\ fsp.pc = "return"
  /\ fsp' = [fsp EXCEPT !.ret = fsp.success, !.pc = "done"]
  /\ UNCHANGED <<copy_vars, xf, ck, desc, list_vars>>

FreeSpaceNext ==
  \/ QueryFilesystemInfo
  \/ ReadFilesystemFree
  \/ ReadFilesystemSize
  \/ ReturnFreeSpace

SpecFreeSpace == FreeSpaceInit /\ [][FreeSpaceNext]_vars

\* C7: thunar_g_file_get_free_space returns TRUE only if the query succeeded
\* and both the free and the size attribute are set in its result.
C7_SuccessNeedsBothAttributes ==
  (fsp.pc = "done" /\ fsp.ret) =>
    /\ fsp.query_ok
    /\ HasAttribute(fsp.attributes, "filesystem::free")
    /\ HasAttribute(fsp.attributes, "filesystem::size")

-----------------------------------------------------------------------------
(* thunar_g_file_set_executable_flags                                       *)

\* The largest unix::mode tried: the nine permission bits.
MaxMode == 511

\* The execute bits of ThunarFileMode.
THUNAR_FILE_MODE_USR_EXEC == 64
THUNAR_FILE_MODE_GRP_EXEC == 8
THUNAR_FILE_MODE_OTH_EXEC == 1

\* The bitwise or of two modes.
RECURSIVE BitOr(_, _)
BitOr(a, b) ==
  IF a = 0 THEN b
  ELSE IF b = 0 THEN a
  ELSE (IF a % 2 = 1 \/ b % 2 = 1 THEN 1 ELSE 0) + 2 * BitOr(a \div 2, b \div 2)

\* new_mode of line 1290.
NewMode(old_mode) ==
  BitOr(BitOr(BitOr(old_mode, THUNAR_FILE_MODE_USR_EXEC), THUNAR_FILE_MODE_GRP_EXEC),
        THUNAR_FILE_MODE_OTH_EXEC)

\* mode is the file's unix::mode; error tells whether the caller passed an
\* error location, err_loc what that location holds; info is the result of the
\* query ("NULL", "no_mode" for an info without unix::mode, or "mode"); wrote
\* records the outcome of g_file_set_attribute_uint32 ("none" if not called).
ExecutableInit ==
  /\ args = Idle /\ copy = Idle /\ fs = Idle /\ fs0 = Idle
  /\ err_loc = Idle /\ cancelled = Idle /\ calls = Idle
  /\ fsp = Idle /\ ck = Idle /\ desc = Idle
  /\ gp = Idle /\ sv = Idle /\ dn = Idle /\ al = Idle /\ xdg = Idle /\ ld = Idle
  /\ \E mode \in 0..MaxMode, error \in BOOLEAN :
       xf = [pc |-> "query", mode |-> mode, error |-> error, err_loc |-> NoError,
             info |-> NULL, old_mode |-> 0, new_mode |-> 0, wrote |-> "none",
             ret |-> FALSE]

\* Lines 1276-1282: g_file_query_info (file, unix::mode, ..., NULL, error).
QueryMode ==
  /\ xf.pc = "query"
  /\ \E info \in {NULL, "no_mode", "mode"} :
       xf' = [xf EXCEPT !.info = info,
                        !.err_loc = IF info = NULL /\ xf.error THEN "FAILED" ELSE @,
                        !.pc = IF info # NULL THEN "set_mode" ELSE "return"]
  /\ UNCHANGED <<copy_vars, fsp, ck, desc, list_vars>>

\* Lines 1284-1305: the new mode is computed and, if it differs, written.
SetMode ==
  /\ xf.pc = "set_mode"
  /\ IF xf.info = "mode"
       THEN LET old_mode == xf.mode
                new_mode == NewMode(old_mode)
            IN IF old_mode # new_mode
                 THEN \E ok \in BOOLEAN :
                        xf' = [xf EXCEPT !.old_mode = old_mode, !.new_mode = new_mode,
                                         !.mode = IF ok THEN new_mode ELSE @,
                                         !.wrote = IF ok THEN "ok" ELSE "failed",
                                         !.err_loc = IF ~ok /\ xf.error THEN "FAILED" ELSE @,
                                         !.pc = "return"]
                 ELSE xf' = [xf EXCEPT !.old_mode = old_mode, !.new_mode = new_mode,
                                       !.pc = "return"]
       ELSE xf' = [xf EXCEPT !.pc = "return"]
  /\ UNCHANGED <<copy_vars, fsp, ck, desc, list_vars>>

\* Line 1308: return (error == NULL).
ReturnExecutable ==
  /\ xf.pc = "return"
  /\ xf' = [xf EXCEPT !.ret = ~xf.error, !.pc = "done"]
  /\ UNCHANGED <<copy_vars, fsp, ck, desc, list_vars>>

ExecutableNext ==
  \/ QueryMode
  \/ SetMode
  \/ ReturnExecutable

SpecExecutable == ExecutableInit /\ [][ExecutableNext]_vars

\* C8: thunar_g_file_set_executable_flags returns TRUE when the mode was read
\* and either had all three execute bits or was rewritten, and FALSE when the
\* query or the write failed, whether or not an error location was passed.
C8_ReturnsSuccess ==
  xf.pc = "done" =>
    /\ (xf.info = "mode" /\ (xf.old_mode = xf.new_mode \/ xf.wrote = "ok")) => xf.ret
    /\ (xf.info = NULL \/ xf.wrote = "failed") => ~xf.ret

-----------------------------------------------------------------------------
(* thunar_g_file_compare_checksum                                           *)

\* The checksum strings, in strcmp order.
Checksums == <<"c1", "c2", "c3">>

ChecksumSet == {Checksums[i] : i \in DOMAIN Checksums}

\* g_strcmp0: NULL sorts before every string and equals NULL.
GStrcmp0(str1, str2) ==
  IF str1 = str2 THEN 0
  ELSE IF str1 = NULL THEN -1
  ELSE IF str2 = NULL THEN 1
  ELSE LET rank(c) == CHOOSE i \in DOMAIN Checksums : Checksums[i] = c
       IN IF rank(str1) < rank(str2) THEN -1 ELSE 1

\* xfce_g_file_create_checksum: the checksum of the file's content, or NULL
\* when the file cannot be read or the operation is cancelled.
CreateChecksum(file) ==
  IF file.readable THEN {file.checksum, NULL} ELSE {NULL}

CheckedFiles == [readable : BOOLEAN, checksum : ChecksumSet]

ChecksumInit ==
  /\ args = Idle /\ copy = Idle /\ fs = Idle /\ fs0 = Idle
  /\ err_loc = Idle /\ cancelled = Idle /\ calls = Idle
  /\ fsp = Idle /\ xf = Idle /\ desc = Idle
  /\ gp = Idle /\ sv = Idle /\ dn = Idle /\ al = Idle /\ xdg = Idle /\ ld = Idle
  /\ \E file_a \in CheckedFiles, file_b \in CheckedFiles, error \in BOOLEAN :
       ck = [pc |-> "checksum_a", file_a |-> file_a, file_b |-> file_b, error |-> error,
             err_loc |-> NoError, str_a |-> NULL, str_b |-> NULL, is_equal |-> FALSE,
             ret |-> FALSE]

\* Line 866.
ChecksumA ==
  /\ ck.pc = "checksum_a"
  /\ \E str \in CreateChecksum(ck.file_a) :
       ck' = [ck EXCEPT !.str_a = str,
                        !.err_loc = IF str = NULL /\ ck.error /\ @ = NoError
                                      THEN "FAILED" ELSE @,
                        !.pc = "checksum_b"]
  /\ UNCHANGED <<copy_vars, fsp, xf, desc, list_vars>>

\* Line 867.
ChecksumB ==
  /\ ck.pc = "checksum_b"
  /\ \E str \in CreateChecksum(ck.file_b) :
       ck' = [ck EXCEPT !.str_b = str,
                        !.err_loc = IF str = NULL /\ ck.error /\ @ = NoError
                                      THEN "FAILED" ELSE @,
                        !.pc = "compare"]
  /\ UNCHANGED <<copy_vars, fsp, xf, desc, list_vars>>

\* Lines 869-874.
CompareChecksums ==
  /\ ck.pc = "compare"
  /\ LET is_equal == GStrcmp0(ck.str_a, ck.str_b) = 0
     IN ck' = [ck EXCEPT !.is_equal = is_equal, !.ret = is_equal, !.pc = "done"]
  /\ UNCHANGED <<copy_vars, fsp, xf, desc, list_vars>>

ChecksumNext ==
  \/ ChecksumA
  \/ ChecksumB
  \/ CompareChecksums

SpecChecksum == ChecksumInit /\ [][ChecksumNext]_vars

\* C9: thunar_g_file_compare_checksum returns TRUE exactly when both checksums
\* were computed and are equal.
C9_TrueIffBothComputedAndEqual ==
  ck.pc = "done" =>
    (ck.ret <=> (ck.str_a # NULL /\ ck.str_b # NULL /\ ck.str_a = ck.str_b))

-----------------------------------------------------------------------------
(* thunar_g_file_is_descendant                                              *)

\* The number of files of the tree.
MaxFiles == 4

\* No file: a NULL GFile*.
NoFile == 0

TreeFiles == 1..MaxFiles

\* The trees: every file has no parent or a parent of a smaller number, so
\* every chain of parents is finite.
ParentMaps ==
  {p \in [TreeFiles -> {NoFile} \cup TreeFiles] : \A f \in TreeFiles : p[f] < f}

\* g_file_get_parent
GFileGetParent(file) == desc.parent_of[file]

\* g_file_equal
GFileEqual(file1, file2) == file1 = file2

IsDescendantInit ==
  /\ args = Idle /\ copy = Idle /\ fs = Idle /\ fs0 = Idle
  /\ err_loc = Idle /\ cancelled = Idle /\ calls = Idle
  /\ fsp = Idle /\ xf = Idle /\ ck = Idle
  /\ gp = Idle /\ sv = Idle /\ dn = Idle /\ al = Idle /\ xdg = Idle /\ ld = Idle
  /\ \E parent_of \in ParentMaps, descendant \in TreeFiles, ancestor \in TreeFiles :
       desc = [pc |-> "loop", parent_of |-> parent_of, descendant |-> descendant,
               ancestor |-> ancestor, parent |-> descendant, iterations |-> 0,
               ret |-> FALSE]

\* IsDescendantLoop, had line 1019 compared descendant instead of parent.
IsDescendantLoop_Descendant ==
  /\ desc.pc = "loop"
  /\ desc.parent # NoFile
  /\ IF GFileEqual(desc.descendant, desc.ancestor)
       THEN desc' = [desc EXCEPT !.ret = TRUE, !.pc = "done",
                                 !.iterations = @ + 1]
       ELSE desc' = [desc EXCEPT !.parent = GFileGetParent(desc.parent),
                                 !.iterations = @ + 1]
  /\ UNCHANGED <<copy_vars, fsp, xf, ck, list_vars>>

\* Lines 1015-1024: one turn of the loop, parent being a file.
IsDescendantLoop ==
  /\ desc.pc = "loop"
  /\ desc.parent # NoFile
  /\ IF GFileEqual(desc.parent, desc.ancestor)
       THEN desc' = [desc EXCEPT !.ret = TRUE, !.pc = "done",
                                 !.iterations = @ + 1]
       ELSE desc' = [desc EXCEPT !.parent = GFileGetParent(desc.parent),
                                 !.iterations = @ + 1]
  /\ UNCHANGED <<copy_vars, fsp, xf, ck, list_vars>>

\* Lines 1016 and 1026: parent is NULL, the loop ends and FALSE is returned.
IsDescendantReturn ==
  /\ desc.pc = "loop"
  /\ desc.parent = NoFile
  /\ desc' = [desc EXCEPT !.ret = FALSE, !.pc = "done"]
  /\ UNCHANGED <<copy_vars, fsp, xf, ck, list_vars>>

IsDescendantNext ==
  \/ IsDescendantLoop
  \/ IsDescendantReturn

\* The function runs to its end: nothing suspends it.
SpecIsDescendant ==
  IsDescendantInit /\ [][IsDescendantNext]_vars /\ WF_vars(IsDescendantNext)

\* The file together with its parent, its parent's parent, and so on.
RECURSIVE SelfAndAncestors(_, _)
SelfAndAncestors(parent_of, file) ==
  IF file = NoFile THEN {} ELSE {file} \cup SelfAndAncestors(parent_of, parent_of[file])

\* C10: thunar_g_file_is_descendant ends, after at most one turn of the loop
\* per file of the chain from descendant to the root, and returns TRUE exactly
\* when ancestor is descendant or one of its transitive parents.
C10_IsDescendant ==
  /\ [](desc.pc = "done" =>
          desc.ret = (desc.ancestor \in SelfAndAncestors(desc.parent_of, desc.descendant)))
  /\ [](desc.iterations <= Cardinality(SelfAndAncestors(desc.parent_of, desc.descendant)))
  /\ <>(desc.pc = "done")

\* C10 witness: TRUE for an ancestor two levels up, FALSE having passed a root.
C10_Witness ==
  /\ desc.pc = "done"
  /\ \/ /\ desc.ret
        /\ desc.parent_of[desc.descendant] # NoFile
        /\ desc.ancestor = desc.parent_of[desc.parent_of[desc.descendant]]
     \/ /\ ~desc.ret
        /\ desc.iterations >= 2
        /\ desc.parent_of[desc.ancestor] = desc.descendant

-----------------------------------------------------------------------------
(* thunar_g_file_list_get_parents                                           *)

\* The files a list is drawn from, and the longest list.
MaxListFiles == 3
MaxListLen == 3

ListFiles == 1..MaxListFiles

\* The parent of every file, NoFile for a root.
ListParentMaps ==
  {p \in [ListFiles -> {NoFile} \cup ListFiles] : \A f \in ListFiles : p[f] < f}

\* The data of a list element: a file, or NoFile for data that is no GFile.
FileLists == UNION {[1..n -> {NoFile} \cup ListFiles] : n \in 0..MaxListLen}

\* G_IS_FILE
GIsFile(data) == data # NoFile

GetParentsInit ==
  /\ args = Idle /\ copy = Idle /\ fs = Idle /\ fs0 = Idle
  /\ err_loc = Idle /\ cancelled = Idle /\ calls = Idle
  /\ fsp = Idle /\ xf = Idle /\ ck = Idle /\ desc = Idle
  /\ sv = Idle /\ dn = Idle /\ al = Idle /\ xdg = Idle /\ ld = Idle
  /\ \E parent_of \in ListParentMaps, file_list \in FileLists :
       gp = [pc |-> "loop", parent_of |-> parent_of, file_list |-> file_list,
             lp_file_list |-> 1, parent_folder_list |-> <<>>, ret |-> <<>>]

\* GetParentsLoop, had lines 979-986 never found the folder.
GetParentsLoop_NoCheck ==
  /\ gp.pc = "loop"
  /\ gp.lp_file_list <= Len(gp.file_list)
  /\ LET data == gp.file_list[gp.lp_file_list]
         parent_folder == IF GIsFile(data) THEN gp.parent_of[data] ELSE NoFile
         folder_already_added == FALSE
     IN gp' = [gp EXCEPT !.lp_file_list = @ + 1,
                         !.parent_folder_list =
                            IF ~GIsFile(data) \/ parent_folder = NoFile \/ folder_already_added
                              THEN @ ELSE Append(@, parent_folder)]
  /\ UNCHANGED <<copy_vars, query_vars, sv, dn, al, xdg, ld>>

\* Lines 970-992: one turn of the loop over file_list.
GetParentsLoop ==
  /\ gp.pc = "loop"
  /\ gp.lp_file_list <= Len(gp.file_list)
  /\ LET data == gp.file_list[gp.lp_file_list]
         parent_folder == IF GIsFile(data) THEN gp.parent_of[data] ELSE NoFile
         folder_already_added ==
           \E i \in DOMAIN gp.parent_folder_list :
             GFileEqual(gp.parent_folder_list[i], parent_folder)
     IN gp' = [gp EXCEPT !.lp_file_list = @ + 1,
                         !.parent_folder_list =
                            IF ~GIsFile(data) \/ parent_folder = NoFile \/ folder_already_added
                              THEN @ ELSE Append(@, parent_folder)]
  /\ UNCHANGED <<copy_vars, query_vars, sv, dn, al, xdg, ld>>

\* Lines 970 and 993: the list is exhausted, parent_folder_list is returned.
GetParentsReturn ==
  /\ gp.pc = "loop"
  /\ gp.lp_file_list > Len(gp.file_list)
  /\ gp' = [gp EXCEPT !.ret = gp.parent_folder_list, !.pc = "done"]
  /\ UNCHANGED <<copy_vars, query_vars, sv, dn, al, xdg, ld>>

GetParentsNext ==
  \/ GetParentsLoop
  \/ GetParentsReturn

SpecGetParents == GetParentsInit /\ [][GetParentsNext]_vars

\* The places of file_list that hold a file whose parent is folder.
ChildrenOf(folder) ==
  {k \in DOMAIN gp.file_list :
     gp.file_list[k] # NoFile /\ gp.parent_of[gp.file_list[k]] = folder}

\* The least element of a non-empty set of numbers.
Least(S) == CHOOSE k \in S : \A l \in S : k <= l

\* C11: the list returned holds the parent of every file of the input that
\* has one, holds no folder twice, holds only parents of files of the input,
\* and holds them in the order in which each first occurs as a parent in the
\* input; elements that are no files or have no parent add nothing.
C11_ParentsOnceInOrder ==
  gp.pc = "done" =>
    /\ \A k \in DOMAIN gp.file_list :
         (gp.file_list[k] # NoFile /\ gp.parent_of[gp.file_list[k]] # NoFile) =>
           \E i \in DOMAIN gp.ret : gp.ret[i] = gp.parent_of[gp.file_list[k]]
    /\ \A i, j \in DOMAIN gp.ret : i # j => ~GFileEqual(gp.ret[i], gp.ret[j])
    /\ \A i \in DOMAIN gp.ret : gp.ret[i] # NoFile /\ ChildrenOf(gp.ret[i]) # {}
    /\ \A i, j \in DOMAIN gp.ret :
         i < j => Least(ChildrenOf(gp.ret[i])) < Least(ChildrenOf(gp.ret[j]))

\* C11 witness: two files of one folder, then a root.
C11_Witness ==
  /\ gp.pc = "done"
  /\ Len(gp.file_list) = 3
  /\ \A k \in 1..3 : gp.file_list[k] # NoFile
  /\ gp.file_list[1] # gp.file_list[2]
  /\ gp.parent_of[gp.file_list[1]] # NoFile
  /\ gp.parent_of[gp.file_list[1]] = gp.parent_of[gp.file_list[2]]
  /\ gp.parent_of[gp.file_list[3]] = NoFile
  /\ Len(gp.ret) = 1

-----------------------------------------------------------------------------
(* Short strings.  Where single characters matter (URIs, parse names, paths *)
(* searched for a character) a string is the sequence of its characters,    *)
(* and NoName is again the NULL string.                                     *)

\* What g_filename_to_uri and g_uri_escape_string write for one character of a
\* path: the character itself, or "%" and its code in hexadecimal.  "\\xFF" is
\* the byte 0xFF, which is no UTF-8.
EscapeChar(c) ==
  CASE c = " " -> <<"%", "2", "0">>
    [] c = "%" -> <<"%", "2", "5">>
    [] c = "#" -> <<"%", "2", "3">>
    [] c = "\\xFF" -> <<"%", "F", "F">>
    [] OTHER -> <<c>>

RECURSIVE EscapeString(_)
EscapeString(str) ==
  IF str = <<>> THEN <<>> ELSE EscapeChar(Head(str)) \o EscapeString(Tail(str))

\* g_filename_to_uri (filename, NULL, NULL) of an absolute file name.
GFilenameToUri(filename) == <<"f", "i", "l", "e", ":", "/", "/">> \o EscapeString(filename)

-----------------------------------------------------------------------------
(* thunar_g_file_list_to_stringv                                            *)

\* The longest list.
MaxStringvLen == 3

\* The files of a list, each with what g_file_get_path and g_file_get_uri
\* return for it: two local files, a remote file without a local path, and a
\* remote file that a FUSE mount gives one.
StringvFiles ==
  {[path |-> <<"/", "a">>, uri |-> GFilenameToUri(<<"/", "a">>)],
   [path |-> <<"/", "a", " ", "#">>, uri |-> GFilenameToUri(<<"/", "a", " ", "#">>)],
   [path |-> NoName, uri |-> <<"s", ":", "/", "/", "h", "/", "a">>],
   [path |-> <<"/", "g", "/", "a">>, uri |-> <<"s", ":", "/", "/", "h", "/", "b">>]}

StringvLists == UNION {[1..n -> StringvFiles] : n \in 0..MaxStringvLen}

StringvInit ==
  /\ args = Idle /\ copy = Idle /\ fs = Idle /\ fs0 = Idle
  /\ err_loc = Idle /\ cancelled = Idle /\ calls = Idle
  /\ fsp = Idle /\ xf = Idle /\ ck = Idle /\ desc = Idle
  /\ gp = Idle /\ dn = Idle /\ al = Idle /\ xdg = Idle /\ ld = Idle
  /\ \E list \in StringvLists :
       sv = [pc |-> "alloc", list |-> list, lp |-> 1, n |-> 0, uris |-> <<>>,
             ret |-> <<>>]

\* Line 929: g_new0 of one pointer per element and one more, all NULL.
StringvAlloc ==
  /\ sv.pc = "alloc"
  /\ sv' = [sv EXCEPT !.uris = [i \in 1..(Len(sv.list) + 1) |-> NoName],
                      !.pc = "loop"]
  /\ UNCHANGED <<copy_vars, query_vars, gp, dn, al, xdg, ld>>

\* StringvLoop, had line 934 found no path for any file.
StringvLoop_UriOnly ==
  /\ sv.pc = "loop"
  /\ sv.lp <= Len(sv.list)
  /\ LET path == NoName
     IN sv' = [sv EXCEPT !.uris[sv.n + 1] =
                           IF path = NoName THEN sv.list[sv.lp].uri
                                            ELSE GFilenameToUri(path),
                         !.n = @ + 1,
                         !.lp = @ + 1]
  /\ UNCHANGED <<copy_vars, query_vars, gp, dn, al, xdg, ld>>

\* Lines 931-944: one turn of the loop; uris[n++] is the place n + 1 here.
StringvLoop ==
  /\ sv.pc = "loop"
  /\ sv.lp <= Len(sv.list)
  /\ LET path == sv.list[sv.lp].path
     IN sv' = [sv EXCEPT !.uris[sv.n + 1] =
                           IF path = NoName THEN sv.list[sv.lp].uri
                                            ELSE GFilenameToUri(path),
                         !.n = @ + 1,
                         !.lp = @ + 1]
  /\ UNCHANGED <<copy_vars, query_vars, gp, dn, al, xdg, ld>>

\* Lines 931 and 946.
StringvReturn ==
  /\ sv.pc = "loop"
  /\ sv.lp > Len(sv.list)
  /\ sv' = [sv EXCEPT !.ret = sv.uris, !.pc = "done"]
  /\ UNCHANGED <<copy_vars, query_vars, gp, dn, al, xdg, ld>>

StringvNext ==
  \/ StringvAlloc
  \/ StringvLoop
  \/ StringvReturn

SpecStringv == StringvInit /\ [][StringvNext]_vars

\* The character with a hexadecimal code.
CharOfCode(hi, lo) ==
  CASE hi = "2" /\ lo = "0" -> " "
    [] hi = "2" /\ lo = "3" -> "#"
    [] hi = "2" /\ lo = "5" -> "%"
    [] hi = "F" /\ lo = "F" -> "\\xFF"

\* A percent-encoded string decoded.
RECURSIVE Decoded(_)
Decoded(str) ==
  IF str = <<>> THEN <<>>
  ELSE IF Head(str) = "%"
    THEN <<CharOfCode(str[2], str[3])>> \o Decoded(SubSeq(str, 4, Len(str)))
    ELSE <<Head(str)>> \o Decoded(Tail(str))

\* uri is a file: URI of the absolute file name path.
IsFileUriOf(uri, path) ==
  /\ Len(uri) > 7
  /\ SubSeq(uri, 1, 7) = <<"f", "i", "l", "e", ":", "/", "/">>
  /\ \A i \in 8..Len(uri) : uri[i] \notin {" ", "#"}
  /\ Decoded(SubSeq(uri, 8, Len(uri))) = path

\* C12: the array returned has one entry per element of the list, in the
\* list's order, and NULL after them; the entry of a file that has a local
\* path is the file: URI of that path, the entry of any other file is the
\* file's own URI.
C12_OneUriPerFile ==
  sv.pc = "done" =>
    /\ Len(sv.ret) = Len(sv.list) + 1
    /\ sv.ret[Len(sv.list) + 1] = NoName
    /\ \A k \in DOMAIN sv.list :
         /\ sv.ret[k] # NoName
         /\ IF sv.list[k].path # NoName
              THEN IsFileUriOf(sv.ret[k], sv.list[k].path)
              ELSE sv.ret[k] = sv.list[k].uri

\* C12 witness: a remote file with a local path, a remote file without one
\* and a local file whose name needs escaping.
C12_Witness ==
  /\ sv.pc = "done"
  /\ Len(sv.list) = 3
  /\ sv.list[1].path = <<"/", "g", "/", "a">>
  /\ sv.ret[1] = <<"f", "i", "l", "e", ":", "/", "/", "/", "g", "/", "a">>
  /\ sv.list[2].path = NoName
  /\ sv.ret[2] = <<"s", ":", "/", "/", "h", "/", "a">>
  /\ sv.list[3].path = <<"/", "a", " ", "#">>

-----------------------------------------------------------------------------
(* thunar_g_file_get_display_name and thunar_g_file_get_display_name_remote *)

\* g_str_has_prefix
GStrHasPrefix(str, prefix) ==
  Len(str) >= Len(prefix) /\ SubSeq(str, 1, Len(prefix)) = prefix

\* g_utf8_validate, 0xFF being the one byte in use that no UTF-8 string has.
GUtf8Validate(str) == \A i \in DOMAIN str : str[i] # "\\xFF"

\* g_uri_unescape_string (escaped_string, NULL) of a string whose escapes are
\* well formed.
GUriUnescapeString(escaped_string) == Decoded(escaped_string)

\* The user and password parts, the hosts, the ports and the paths that the
\* parse names of the remote mount points are made of.
UserInfos == {NoName, <<"u">>, <<"u", ":", "w">>, <<"u", ".", "u", ":", "w">>}
Hosts == {<<"h">>, <<"h", ".", "h">>}
Ports == {NoName, <<"2">>}
Paths == {NoName, <<"/">>, <<"/", "d">>, <<"/", "d", ".", "d">>, <<"/", "d", "%", "2", "0", "d">>,
          <<"/", "d", "@", "d", ".", "d">>}

\* The part of a URI between "//" and the path.
Authority(userinfo, host, port) ==
  (IF userinfo = NoName THEN <<>> ELSE userinfo \o <<"@">>)
    \o host \o (IF port = NoName THEN <<>> ELSE <<":">> \o port)

\* The basename of the file at a path of at most one component.
PathBasename(path) ==
  IF Len(path) <= 1 THEN <<"/">> ELSE GUriUnescapeString(Tail(path))

\* A GFile, with what g_file_is_native, g_file_get_basename, g_file_get_uri,
\* g_file_get_uri_scheme and g_file_get_parse_name return for it.
GFileOf(native, base_name, uri, scheme, parse_name) ==
  [native |-> native, base_name |-> base_name, uri |-> uri, scheme |-> scheme,
   parse_name |-> parse_name]

\* Remote mount points.
RemoteFiles ==
  {GFileOf(FALSE, PathBasename(path), <<"s", ":", "/", "/">> \o Authority(userinfo, host, port) \o path,
           <<"s">>, <<"s", ":", "/", "/">> \o Authority(userinfo, host, port) \o path) :
     userinfo \in UserInfos, host \in Hosts, port \in Ports, path \in Paths}

\* The other files: the root of the file system, a file with a plain name, a
\* file whose name is no UTF-8, the root of the trash (whose basename the
\* trash backend decides), a file in the trash, a file without basename and
\* scheme, and a remote file whose parse name does not repeat its scheme.
OtherFiles ==
  {GFileOf(TRUE, <<"/">>, <<"f", "i", "l", "e", ":", "/", "/", "/">>, <<"f", "i", "l", "e">>, <<"/">>),
   GFileOf(TRUE, <<"a">>, <<"f", "i", "l", "e", ":", "/", "/", "/", "a">>, <<"f", "i", "l", "e">>, <<"/", "a">>),
   GFileOf(TRUE, <<"a", "\\xFF", " ", "#">>, <<"f", "i", "l", "e", ":", "/", "/", "/", "a", "%", "F", "F", "%", "2", "0", "%", "2", "3">>, <<"f", "i", "l", "e">>, <<"/", "a", "\\xFF", " ", "#">>),
   GFileOf(FALSE, <<"/">>, <<"t", "r", "a", "s", "h", ":", "/", "/", "/">>, <<"t", "r", "a", "s", "h">>, <<"t", "r", "a", "s", "h", ":", "/", "/", "/">>),
   GFileOf(FALSE, <<"t">>, <<"t", "r", "a", "s", "h", ":", "/", "/", "/">>, <<"t", "r", "a", "s", "h">>, <<"t", "r", "a", "s", "h", ":", "/", "/", "/">>),
   GFileOf(FALSE, <<"a">>, <<"t", "r", "a", "s", "h", ":", "/", "/", "/", "a">>, <<"t", "r", "a", "s", "h">>, <<"t", "r", "a", "s", "h", ":", "/", "/", "/", "a">>),
   GFileOf(FALSE, NoName, <<"x">>, NoName, <<"x">>),
   GFileOf(FALSE, <<"/">>, <<"s", ":", "/", "/", "h", ".", "h", "/">>, <<"s">>, <<"S", ":", "/", "/", "h", ".", "h", "/">>)}

DisplayFiles == RemoteFiles \cup OtherFiles

\* thunar_g_file_is_trash, lines 275-279.
ThunarGFileIsTrash(file) == file.uri = <<"t", "r", "a", "s", "h", ":", "/", "/", "/">>

\* ThunarGFileGetDisplayName, had line 489 come before line 487.
ThunarGFileGetDisplayName_TrashFirst(file) ==
  LET base_name == file.base_name
  IN IF base_name # NoName
       THEN IF ThunarGFileIsTrash(file) THEN <<"T", "r", "a", "s", "h">>
            ELSE IF base_name = <<"/">> THEN <<"F", "i", "l", "e", " ", "S", "y", "s", "t", "e", "m">>
            ELSE IF GUtf8Validate(base_name) THEN base_name
            ELSE EscapeString(base_name)
       ELSE <<"?">>

\* thunar_g_file_get_display_name, lines 484-503.
ThunarGFileGetDisplayName(file) ==
  LET base_name == file.base_name
  IN IF base_name # NoName
       THEN IF base_name = <<"/">> THEN <<"F", "i", "l", "e", " ", "S", "y", "s", "t", "e", "m">>
            ELSE IF ThunarGFileIsTrash(file) THEN <<"T", "r", "a", "s", "h">>
            ELSE IF GUtf8Validate(base_name) THEN base_name
            ELSE EscapeString(base_name)
       ELSE <<"?">>

\* A pointer into parse_name is the place of the character it points to; the
\* place after the last character is that of the terminating zero, and 0 is
\* the NULL pointer.
NullPtr == 0

\* strchr (s, c) for s pointing into str.
StrChr(str, s, c) ==
  IF \E i \in s..Len(str) : str[i] = c
    THEN CHOOSE i \in s..Len(str) : str[i] = c /\ \A j \in s..(i - 1) : str[j] # c
    ELSE NullPtr

\* Lines 535-536: p moved over every ':' and '/' it points to.
RECURSIVE SkipSeparators(_, _)
SkipSeparators(str, p) ==
  IF p <= Len(str) /\ str[p] \in {":", "/"} THEN SkipSeparators(str, p + 1) ELSE p

\* g_strndup (p, n) for p pointing into str: n is a gsize, so that a negative
\* difference is a count larger than any string.
GStrndup(str, p, n) ==
  IF n >= 0 /\ p + n - 1 <= Len(str) THEN SubSeq(str, p, p + n - 1)
                                     ELSE SubSeq(str, p, Len(str))

\* skip_chars, line 520.
SkipChars == <<":", "@">>

DisplayNameInit ==
  /\ args = Idle /\ copy = Idle /\ fs = Idle /\ fs0 = Idle
  /\ err_loc = Idle /\ cancelled = Idle /\ calls = Idle
  /\ fsp = Idle /\ xf = Idle /\ ck = Idle /\ desc = Idle
  /\ gp = Idle /\ sv = Idle /\ al = Idle /\ xdg = Idle /\ ld = Idle
  /\ \E file \in DisplayFiles, function \in {"display_name", "display_name_remote"} :
       dn = [pc |-> function, function |-> function, file |-> file,
             p |-> NullPtr, path |-> NullPtr, firstdot |-> NullPtr, n |-> 0,
             hostname |-> NoName, display_name |-> NoName, ret |-> NoName]

\* thunar_g_file_get_display_name called by itself.
GetDisplayName ==
  /\ dn.pc = "display_name"
  /\ dn' = [dn EXCEPT !.ret = ThunarGFileGetDisplayName(dn.file), !.pc = "done"]
  /\ UNCHANGED <<copy_vars, query_vars, gp, sv, al, xdg, ld>>

\* Lines 526-542: the tests for a remote file whose parse name starts with its
\* scheme, and the search for the host, the path and the first dot.
RemoteFindHost ==
  /\ dn.pc = "display_name_remote"
  /\ LET scheme == dn.file.scheme
         parse_name == dn.file.parse_name
         p == SkipSeparators(parse_name, Len(scheme) + 1)
         path == StrChr(parse_name, p, "/")
         firstdot == StrChr(parse_name, p, ".")
     IN IF ~dn.file.native /\ scheme # NoName /\ GStrHasPrefix(parse_name, scheme)
          THEN dn' = [dn EXCEPT !.p = p, !.path = path, !.firstdot = firstdot, !.n = 0,
                                !.pc = IF firstdot # NullPtr THEN "skip" ELSE "extract"]
          ELSE dn' = [dn EXCEPT !.pc = "return"]
  /\ UNCHANGED <<copy_vars, query_vars, gp, sv, al, xdg, ld>>

\* RemoteSkipLogin, had line 549 not compared skip with path.
RemoteSkipLogin_AnyPlace ==
  /\ dn.pc = "skip"
  /\ LET skip == StrChr(dn.file.parse_name, dn.p, SkipChars[dn.n + 1])
     IN dn' = [dn EXCEPT !.p = IF /\ skip # NullPtr
                                  /\ skip < dn.firstdot
                                 THEN skip + 1 ELSE @,
                         !.n = @ + 1,
                         !.pc = IF dn.n + 1 < Len(SkipChars) THEN "skip" ELSE "extract"]
  /\ UNCHANGED <<copy_vars, query_vars, gp, sv, al, xdg, ld>>

\* Lines 545-552: one turn of the loop over skip_chars.
RemoteSkipLogin ==
  /\ dn.pc = "skip"
  /\ LET skip == StrChr(dn.file.parse_name, dn.p, SkipChars[dn.n + 1])
     IN dn' = [dn EXCEPT !.p = IF /\ skip # NullPtr
                                  /\ (dn.path = NullPtr \/ skip < dn.path)
                                  /\ skip < dn.firstdot
                                 THEN skip + 1 ELSE @,
                         !.n = @ + 1,
                         !.pc = IF dn.n + 1 < Len(SkipChars) THEN "skip" ELSE "extract"]
  /\ UNCHANGED <<copy_vars, query_vars, gp, sv, al, xdg, ld>>

\* Lines 556-573: the hostname, the unescaped path and "<path> on <hostname>".
RemoteExtract ==
  /\ dn.pc = "extract"
  /\ LET parse_name == dn.file.parse_name
         hostname == IF dn.path # NullPtr
                       THEN GStrndup(parse_name, dn.p, dn.path - dn.p)
                       ELSE SubSeq(parse_name, dn.p, Len(parse_name))
         path == IF dn.path # NullPtr
                   THEN SubSeq(parse_name, dn.path, Len(parse_name))
                   ELSE <<"/">>
         unescaped == GUriUnescapeString(path)
     IN dn' = [dn EXCEPT !.hostname = hostname,
                         !.display_name = unescaped \o <<" ", "o", "n", " ">> \o hostname,
                         !.pc = "return"]
  /\ UNCHANGED <<copy_vars, query_vars, gp, sv, al, xdg, ld>>

\* Lines 581-585: never NULL.
RemoteReturn ==
  /\ dn.pc = "return"
  /\ dn' = [dn EXCEPT !.ret = IF dn.display_name = NoName
                                THEN ThunarGFileGetDisplayName(dn.file)
                                ELSE dn.display_name,
                      !.pc = "done"]
  /\ UNCHANGED <<copy_vars, query_vars, gp, sv, al, xdg, ld>>

DisplayNameNext ==
  \/ GetDisplayName
  \/ RemoteFindHost
  \/ RemoteSkipLogin
  \/ RemoteExtract
  \/ RemoteReturn

SpecDisplayName == DisplayNameInit /\ [][DisplayNameNext]_vars

\* The file is remote and its parse name starts with its scheme.
RemoteNamed(file) ==
  ~file.native /\ file.scheme # NoName /\ GStrHasPrefix(file.parse_name, file.scheme)

\* name is the display name of file by the order of precedence.
IsDisplayNameOf(name, file) ==
  /\ file.base_name = NoName => name = <<"?">>
  /\ file.base_name = <<"/">> => name = <<"F", "i", "l", "e", " ", "S", "y", "s", "t", "e", "m">>
  /\ (file.base_name \notin {NoName, <<"/">>} /\ file.uri = <<"t", "r", "a", "s", "h", ":", "/", "/", "/">>) => name = <<"T", "r", "a", "s", "h">>
  /\ (file.base_name \notin {NoName, <<"/">>} /\ file.uri # <<"t", "r", "a", "s", "h", ":", "/", "/", "/">>) =>
       IF \A i \in DOMAIN file.base_name : file.base_name[i] # "\\xFF"
         THEN name = file.base_name
         ELSE /\ \A i \in DOMAIN name : name[i] \notin {"\\xFF", " ", "#"}
              /\ Decoded(name) = file.base_name

\* C13: neither function returns NULL; thunar_g_file_get_display_name returns
\* "?" without a basename, else "File System" for the basename "/", else
\* "Trash" for the URI "trash:///", else the basename if it is valid UTF-8,
\* else the basename percent-escaped; thunar_g_file_get_display_name_remote
\* returns the same for a native file and for a file whose parse name does not
\* start with its scheme.
C13_DisplayNamePrecedence ==
  dn.pc = "done" =>
    /\ dn.ret # NoName
    /\ dn.function = "display_name" => IsDisplayNameOf(dn.ret, dn.file)
    /\ (dn.function = "display_name_remote" /\ ~RemoteNamed(dn.file)) =>
         IsDisplayNameOf(dn.ret, dn.file)

\* C13 witness: the root of the trash with the basename "/" is the file
\* system, and a native file named by bytes that are no UTF-8 falls back to
\* the escaped basename.
C13_Witness ==
  /\ dn.pc = "done"
  /\ \/ /\ dn.function = "display_name"
        /\ dn.file.uri = <<"t", "r", "a", "s", "h", ":", "/", "/", "/">> /\ dn.file.base_name = <<"/">>
        /\ dn.ret = <<"F", "i", "l", "e", " ", "S", "y", "s", "t", "e", "m">>
     \/ /\ dn.function = "display_name_remote"
        /\ dn.file.native /\ dn.file.base_name = <<"a", "\\xFF", " ", "#">>
        /\ dn.ret = <<"a", "%", "F", "F", "%", "2", "0", "%", "2", "3">>

\* str without its leading ':' and '/' characters.
RECURSIVE Stripped(_)
Stripped(str) ==
  IF str # <<>> /\ Head(str) \in {":", "/"} THEN Stripped(Tail(str)) ELSE str

\* The place of the first c in str, 0 if there is none.
FirstPlace(str, c) ==
  IF \E i \in DOMAIN str : str[i] = c
    THEN CHOOSE i \in DOMAIN str : str[i] = c /\ \A j \in 1..(i - 1) : str[j] # c
    ELSE 0

\* "<path> on <host>" as read off a parse name: what follows the scheme and
\* the ':' and '/' after it is the host up to the first '/' and the path from
\* there on; the host starts after the '@' of a user or user:password prefix
\* that lies before the first '/' and before the first '.'.
PathOnHost(file) ==
  LET rest == Stripped(SubSeq(file.parse_name, Len(file.scheme) + 1, Len(file.parse_name)))
      slash == FirstPlace(rest, "/")
      dot == FirstPlace(rest, ".")
      at == FirstPlace(rest, "@")
      first == IF at # 0 /\ (slash = 0 \/ at < slash) /\ dot # 0 /\ at < dot
                 THEN at + 1 ELSE 1
      host == SubSeq(rest, first, IF slash = 0 THEN Len(rest) ELSE slash - 1)
      path == IF slash = 0 THEN <<"/">> ELSE Decoded(SubSeq(rest, slash, Len(rest)))
  IN path \o <<" ", "o", "n", " ">> \o host

\* C14: for a remote mount point whose parse name starts with its scheme,
\* thunar_g_file_get_display_name_remote returns "<path> on <host>": <host> is
\* what follows the scheme, the ':' and '/' after it and a user or
\* user:password prefix before the first '/' and the first '.', up to the
\* first '/'; <path> is the rest unescaped, "/" if there is none.
C14_PathOnHost ==
  (dn.pc = "done" /\ dn.function = "display_name_remote" /\ RemoteNamed(dn.file)) =>
    dn.ret = PathOnHost(dn.file)

-----------------------------------------------------------------------------
(* thunar_g_app_info_launch                                                 *)

\* The longest path_list.
MaxPathListLen == 2

ContentTypes == {"text/plain", "image/png"}

\* An application: the one launched, another one, or NULL for none.
Info == "info"
OtherInfo == "other"

\* An element of path_list: whether thunar_file_get finds a ThunarFile for it,
\* and the content type of that file.
LaunchedFiles ==
  {[file |-> FALSE, content_type |-> NULL]}
    \cup {[file |-> TRUE, content_type |-> t] : t \in ContentTypes}

\* path_list is not NULL (line 1047).
PathLists == UNION {[1..n -> LaunchedFiles] : n \in 1..MaxPathListLen}

\* working_directory: NULL, a directory without a local path, a directory
\* that can be entered and one that cannot.
WorkingDirectories == {NULL, "remote", "/wd", "/gone"}

\* g_file_get_path (working_directory)
WorkingDirectoryPath(working_directory) ==
  IF working_directory \in {"/wd", "/gone"} THEN working_directory ELSE NULL

\* The directory Thunar was started in.
ThunarDirectory == "/thunar"

\* thunar_util_change_working_directory (new_directory): the process enters
\* new_directory and the directory it was in is returned; NULL is returned,
\* and the process stays where it is, when new_directory cannot be entered.
ThunarUtilChangeWorkingDirectory(new_directory) ==
  IF new_directory # "/gone"
    THEN [cwd |-> new_directory, old_directory |-> al.cwd]
    ELSE [cwd |-> al.cwd, old_directory |-> NULL]

LaunchInit ==
  /\ args = Idle /\ copy = Idle /\ fs = Idle /\ fs0 = Idle
  /\ err_loc = Idle /\ cancelled = Idle /\ calls = Idle
  /\ fsp = Idle /\ xf = Idle /\ ck = Idle /\ desc = Idle
  /\ gp = Idle /\ sv = Idle /\ dn = Idle /\ xdg = Idle /\ ld = Idle
  /\ \E skip \in BOOLEAN, working_directory \in WorkingDirectories,
        path_list \in PathLists,
        default_handler \in [ContentTypes -> {NULL, Info, OtherInfo}],
        recommended \in [ContentTypes -> {NULL, Info, OtherInfo}] :
       al = [pc |-> "enter", skip_app_info_update |-> skip,
             working_directory |-> working_directory, path_list |-> path_list,
             default_handler |-> default_handler, recommended |-> recommended,
             recommended0 |-> recommended, lp |-> 1, result |-> FALSE,
             old_path |-> NULL, cwd |-> ThunarDirectory, cwd0 |-> ThunarDirectory,
             changes |-> <<>>, events |-> <<>>, ret |-> FALSE]

\* Lines 1051-1069: the process enters working_directory if it has a path.
LaunchEnter ==
  /\ al.pc = "enter"
  /\ LET new_path == IF al.working_directory # NULL
                       THEN WorkingDirectoryPath(al.working_directory) ELSE NULL
         changed == ThunarUtilChangeWorkingDirectory(new_path)
     IN IF new_path # NULL
          THEN al' = [al EXCEPT !.old_path = changed.old_directory,
                                !.cwd = changed.cwd,
                                !.changes = Append(@, new_path),
                                !.pc = "launch"]
          ELSE al' = [al EXCEPT !.pc = "launch"]
  /\ UNCHANGED <<copy_vars, query_vars, gp, sv, dn, xdg, ld>>

\* Lines 1072-1077: g_app_info_launch, which succeeds or fails.
LaunchApp ==
  /\ al.pc = "launch"
  /\ \E result \in BOOLEAN :
       al' = [al EXCEPT !.result = result,
                        !.pc = IF result = TRUE THEN "update" ELSE "restore"]
  /\ UNCHANGED <<copy_vars, query_vars, gp, sv, dn, xdg, ld>>

\* One event of the launch: the call of g_app_info_set_as_last_used_for_type
\* or of thunar_file_changed for the element lp of path_list.
Event(op, lp, content_type, ok) ==
  [op |-> op, lp |-> lp, content_type |-> content_type, ok |-> ok]

\* LaunchUpdate, had line 1112 not asked for the update to succeed.
LaunchUpdate_AlwaysChanged ==
  /\ al.pc = "update"
  /\ al.lp <= Len(al.path_list)
  /\ LET file == al.path_list[al.lp]
         content_type == file.content_type
         update_app_info ==
           /\ ~al.skip_app_info_update
           /\ file.file
           /\ al.default_handler[content_type] # Info
           /\ al.recommended[content_type] # Info
     IN \E ok \in BOOLEAN :
          al' = [al EXCEPT
                   !.events = IF update_app_info
                                THEN @ \o <<Event("set_as_last_used", al.lp, content_type, ok),
                                            Event("thunar_file_changed", al.lp, content_type, TRUE)>>
                                ELSE @,
                   !.recommended = IF update_app_info /\ ok
                                     THEN [@ EXCEPT ![content_type] = Info] ELSE @,
                   !.lp = @ + 1]
  /\ UNCHANGED <<copy_vars, query_vars, gp, sv, dn, xdg, ld>>

\* Lines 1077-1117: one turn of the loop over path_list.
LaunchUpdate ==
  /\ al.pc = "update"
  /\ al.lp <= Len(al.path_list)
  /\ LET file == al.path_list[al.lp]
         content_type == file.content_type
         update_app_info ==
           /\ ~al.skip_app_info_update
           /\ file.file
           /\ al.default_handler[content_type] # Info
           /\ al.recommended[content_type] # Info
     IN \E ok \in BOOLEAN :
          al' = [al EXCEPT
                   !.events = IF update_app_info
                                THEN @ \o <<Event("set_as_last_used", al.lp, content_type, ok)>>
                                       \o (IF ok
                                             THEN <<Event("thunar_file_changed", al.lp,
                                                          content_type, TRUE)>>
                                             ELSE <<>>)
                                ELSE @,
                   !.recommended = IF update_app_info /\ ok
                                     THEN [@ EXCEPT ![content_type] = Info] ELSE @,
                   !.lp = @ + 1]
  /\ UNCHANGED <<copy_vars, query_vars, gp, sv, dn, xdg, ld>>

\* Line 1077: the end of path_list.
LaunchUpdated ==
  /\ al.pc = "update"
  /\ al.lp > Len(al.path_list)
  /\ al' = [al EXCEPT !.pc = "restore"]
  /\ UNCHANGED <<copy_vars, query_vars, gp, sv, dn, xdg, ld>>

\* LaunchRestore, had lines 1122-1130 been part of the block of line 1075.
LaunchRestore_OnSuccess ==
  /\ al.pc = "restore"
  /\ LET changed == ThunarUtilChangeWorkingDirectory(al.old_path)
     IN IF al.old_path # NULL /\ al.result
          THEN al' = [al EXCEPT !.cwd = changed.cwd,
                                !.changes = Append(@, al.old_path),
                                !.ret = al.result, !.pc = "done"]
          ELSE al' = [al EXCEPT !.ret = al.result, !.pc = "done"]
  /\ UNCHANGED <<copy_vars, query_vars, gp, sv, dn, xdg, ld>>

\* Lines 1120-1132: the process goes back to old_path if there is one.
LaunchRestore ==
  /\ al.pc = "restore"
  /\ LET changed == ThunarUtilChangeWorkingDirectory(al.old_path)
     IN IF al.old_path # NULL
          THEN al' = [al EXCEPT !.cwd = changed.cwd,
                                !.changes = Append(@, al.old_path),
                                !.ret = al.result, !.pc = "done"]
          ELSE al' = [al EXCEPT !.ret = al.result, !.pc = "done"]
  /\ UNCHANGED <<copy_vars, query_vars, gp, sv, dn, xdg, ld>>

LaunchNext ==
  \/ LaunchEnter
  \/ LaunchApp
  \/ LaunchUpdate
  \/ LaunchUpdated
  \/ LaunchRestore

SpecLaunch == LaunchInit /\ [][LaunchNext]_vars

\* The application was the first recommended one for the type before event i:
\* it was when the call started, or an earlier update for the type succeeded.
FirstRecommendedBefore(i, content_type) ==
  \/ al.recommended0[content_type] = Info
  \/ \E j \in 1..(i - 1) :
       /\ al.events[j].op = "set_as_last_used"
       /\ al.events[j].content_type = content_type
       /\ al.events[j].ok

\* C15: thunar_file_changed is called for a file only right after
\* g_app_info_set_as_last_used_for_type succeeded for that file's content
\* type; that update is attempted only after a successful launch, without
\* "skip-app-info-update", for an application that is neither the default
\* handler of the file nor already the first recommended one for the type;
\* after a failed launch there is neither update nor notification.
C15_ChangedAfterLastUsed ==
  /\ \A i \in DOMAIN al.events :
       LET e == al.events[i]
       IN /\ al.path_list[e.lp].file
          /\ e.content_type = al.path_list[e.lp].content_type
          /\ e.op = "thunar_file_changed" =>
               /\ i > 1
               /\ al.events[i - 1] = Event("set_as_last_used", e.lp, e.content_type, TRUE)
          /\ e.op = "set_as_last_used" =>
               /\ al.result
               /\ ~al.skip_app_info_update
               /\ al.default_handler[e.content_type] # Info
               /\ ~FirstRecommendedBefore(i, e.content_type)
  /\ ~al.result => al.events = <<>>

\* C15 witness: two files of one type; the update for the first one succeeded
\* and was notified, and none was attempted for the second one.
C15_Witness ==
  /\ al.pc = "done" /\ al.result
  /\ Len(al.path_list) = 2
  /\ al.path_list[1] = al.path_list[2]
  /\ al.events = <<Event("set_as_last_used", 1, al.path_list[1].content_type, TRUE),
                   Event("thunar_file_changed", 1, al.path_list[1].content_type, TRUE)>>

-----------------------------------------------------------------------------
(* thunar_g_file_is_on_local_device                                         *)

\* What g_file_find_enclosing_mount finds: no mount (NULL), a mount that can
\* be unmounted, or one that cannot.
Mounts == {NULL, "removable", "fixed"}

\* g_mount_can_unmount
GMountCanUnmount(mount) == mount = "removable"

LocalDeviceInit ==
  /\ args = Idle /\ copy = Idle /\ fs = Idle /\ fs0 = Idle
  /\ err_loc = Idle /\ cancelled = Idle /\ calls = Idle
  /\ fsp = Idle /\ xf = Idle /\ ck = Idle /\ desc = Idle
  /\ gp = Idle /\ sv = Idle /\ dn = Idle /\ al = Idle /\ xdg = Idle
  /\ \E parent_of \in ListParentMaps, file \in ListFiles, scheme \in {"file", "sftp"},
        existing \in SUBSET ListFiles :
       ld = [pc |-> "scheme", parent_of |-> parent_of, file |-> file,
             scheme |-> scheme, existing |-> existing, target_file |-> NoFile,
             iterations |-> 0, file_mount |-> NULL, ret |-> FALSE]

\* Lines 1217-1219: FALSE for another scheme than "file"; else the walk
\* starts at the file.
LocalDeviceScheme ==
  /\ ld.pc = "scheme"
  /\ IF ld.scheme # "file"
       THEN ld' = [ld EXCEPT !.ret = FALSE, !.pc = "done"]
       ELSE ld' = [ld EXCEPT !.target_file = ld.file, !.pc = "walk"]
  /\ UNCHANGED <<copy_vars, query_vars, gp, sv, dn, al, xdg>>

\* Lines 1220-1230: target_file does not exist, its parent is next.
LocalDeviceWalk ==
  /\ ld.pc = "walk"
  /\ ld.target_file # NoFile
  /\ ld.target_file \notin ld.existing
  /\ ld' = [ld EXCEPT !.target_file = ld.parent_of[ld.target_file],
                      !.iterations = @ + 1]
  /\ UNCHANGED <<copy_vars, query_vars, gp, sv, dn, al, xdg>>

\* Lines 1220 and 1232-1233: the chain of parents ended, FALSE is returned.
LocalDeviceNotFound ==
  /\ ld.pc = "walk"
  /\ ld.target_file = NoFile
  /\ ld' = [ld EXCEPT !.ret = FALSE, !.pc = "done"]
  /\ UNCHANGED <<copy_vars, query_vars, gp, sv, dn, al, xdg>>

\* LocalDeviceMount, had line 1244 not negated g_mount_can_unmount.
LocalDeviceMount_CanUnmount ==
  /\ ld.pc = "walk"
  /\ ld.target_file # NoFile
  /\ ld.target_file \in ld.existing
  /\ \E file_mount \in Mounts :
       ld' = [ld EXCEPT !.file_mount = file_mount,
                        !.ret = IF file_mount = NULL THEN TRUE
                                ELSE GMountCanUnmount(file_mount),
                        !.pc = "done"]
  /\ UNCHANGED <<copy_vars, query_vars, gp, sv, dn, al, xdg>>

\* Lines 1223-1224 and 1235-1248: target_file exists; its enclosing mount
\* decides.
LocalDeviceMount ==
  /\ ld.pc = "walk"
  /\ ld.target_file # NoFile
  /\ ld.target_file \in ld.existing
  /\ \E file_mount \in Mounts :
       ld' = [ld EXCEPT !.file_mount = file_mount,
                        !.ret = IF file_mount = NULL THEN TRUE
                                ELSE ~GMountCanUnmount(file_mount),
                        !.pc = "done"]
  /\ UNCHANGED <<copy_vars, query_vars, gp, sv, dn, al, xdg>>

LocalDeviceNext ==
  \/ LocalDeviceScheme
  \/ LocalDeviceWalk
  \/ LocalDeviceNotFound
  \/ LocalDeviceMount

\* The function runs to its end: nothing suspends it.
SpecLocalDevice ==
  LocalDeviceInit /\ [][LocalDeviceNext]_vars /\ WF_vars(LocalDeviceNext)

\* The files that exist among the file and its ancestors.
ExistingAncestors == SelfAndAncestors(ld.parent_of, ld.file) \cap ld.existing

\* f is the first that exists on the way from the file up.
FirstExisting(f) ==
  /\ f \in ExistingAncestors
  /\ \A g \in ExistingAncestors : f \in SelfAndAncestors(ld.parent_of, g) => g = f

\* C17: thunar_g_file_is_on_local_device ends, after at most one turn of the
\* loop per file of the chain of parents; it returns FALSE for another scheme
\* than "file" and when neither the file nor an ancestor exists; else it
\* stopped at the first of them that exists and returns TRUE exactly when that
\* one has no enclosing mount or one that cannot be unmounted.
C17_LocalDevice ==
  /\ [](ld.pc = "done" =>
          /\ ld.scheme # "file" => (~ld.ret /\ ld.iterations = 0)
          /\ (ld.scheme = "file" /\ ExistingAncestors = {}) => ~ld.ret
          /\ (ld.scheme = "file" /\ ExistingAncestors # {}) =>
               /\ FirstExisting(ld.target_file)
               /\ ld.ret = (ld.file_mount = NULL \/ ld.file_mount = "fixed"))
  /\ [](ld.iterations <= Cardinality(SelfAndAncestors(ld.parent_of, ld.file)))
  /\ <>(ld.pc = "done")

\* C17 witness: the grandparent is the first that exists and is on a mount
\* that can be unmounted, or nothing exists up to the root.
C17_Witness ==
  /\ ld.pc = "done" /\ ld.scheme = "file" /\ ~ld.ret
  /\ ld.iterations >= 2
  /\ \/ ld.target_file = NoFile
     \/ ld.file_mount = "removable"

-----------------------------------------------------------------------------
(* thunar_g_file_is_in_xdg_data_dir                                         *)

\* The longest list of system data directories.
MaxDataDirs == 2

\* The names of directories and files, and the paths of up to two of them.
Names == {<<"s">>, <<"s", "x">>, <<"x">>}
FilePaths ==
  {<<"/">> \o a : a \in Names} \cup {<<"/">> \o a \o <<"/">> \o b : a \in Names, b \in Names}

\* g_get_system_data_dirs: the directories of XDG_DATA_DIRS as they are
\* written there, with or without a '/' at the end.
DataDirLists ==
  UNION {[1..n -> {<<"/", "s">>, <<"/", "s", "/">>, <<"/", "x", "/", "s">>}] : n \in 1..MaxDataDirs}

XdgInit ==
  /\ args = Idle /\ copy = Idle /\ fs = Idle /\ fs0 = Idle
  /\ err_loc = Idle /\ cancelled = Idle /\ calls = Idle
  /\ fsp = Idle /\ xf = Idle /\ ck = Idle /\ desc = Idle
  /\ gp = Idle /\ sv = Idle /\ dn = Idle /\ al = Idle /\ ld = Idle
  /\ \E native \in BOOLEAN, file_path \in FilePaths, data_dirs \in DataDirLists :
       xdg = [pc |-> "native", native |-> native, file_path |-> file_path,
              data_dirs |-> data_dirs, path |-> NoName, i |-> 0, found |-> FALSE,
              ret |-> FALSE]

\* Lines 1330-1335: only a native file is looked at; its path is taken.
XdgNative ==
  /\ xdg.pc = "native"
  /\ IF xdg.native
       THEN xdg' = [xdg EXCEPT !.path = xdg.file_path, !.i = 0, !.pc = "loop"]
       ELSE xdg' = [xdg EXCEPT !.pc = "return"]
  /\ UNCHANGED <<copy_vars, query_vars, gp, sv, dn, al, ld>>

\* Lines 1336-1343: one turn of the loop; data_dirs[i] is the place i + 1 here.
XdgLoop ==
  /\ xdg.pc = "loop"
  /\ xdg.i < Len(xdg.data_dirs)
  /\ IF GStrHasPrefix(xdg.path, xdg.data_dirs[xdg.i + 1])
       THEN xdg' = [xdg EXCEPT !.found = TRUE, !.pc = "return"]
       ELSE xdg' = [xdg EXCEPT !.i = @ + 1]
  /\ UNCHANGED <<copy_vars, query_vars, gp, sv, dn, al, ld>>

\* Line 1336: the NULL at the end of data_dirs.
XdgLoopEnd ==
  /\ xdg.pc = "loop"
  /\ xdg.i >= Len(xdg.data_dirs)
  /\ xdg' = [xdg EXCEPT !.pc = "return"]
  /\ UNCHANGED <<copy_vars, query_vars, gp, sv, dn, al, ld>>

\* Line 1348.
XdgReturn ==
  /\ xdg.pc = "return"
  /\ xdg' = [xdg EXCEPT !.ret = xdg.found, !.pc = "done"]
  /\ UNCHANGED <<copy_vars, query_vars, gp, sv, dn, al, ld>>

XdgNext ==
  \/ XdgNative
  \/ XdgLoop
  \/ XdgLoopEnd
  \/ XdgReturn

SpecXdg == XdgInit /\ [][XdgNext]_vars

\* The names a path is made of, from the root down.
RECURSIVE NamesOf(_, _, _)
NamesOf(str, name, names) ==
  IF str = <<>>
    THEN IF name = <<>> THEN names ELSE Append(names, name)
    ELSE IF Head(str) = "/"
      THEN NamesOf(Tail(str), <<>>, IF name = <<>> THEN names ELSE Append(names, name))
      ELSE NamesOf(Tail(str), Append(name, Head(str)), names)

\* The file at path is the directory dir or lies somewhere inside it.
IsAtOrBelow(path, dir) ==
  LET p == NamesOf(path, <<>>, <<>>)
      d == NamesOf(dir, <<>>, <<>>)
  IN Len(p) >= Len(d) /\ SubSeq(p, 1, Len(d)) = d

\* The file at path lies inside the directory dir.
IsBelow(path, dir) ==
  IsAtOrBelow(path, dir) /\ Len(NamesOf(path, <<>>, <<>>)) > Len(NamesOf(dir, <<>>, <<>>))

\* C16: thunar_g_file_is_in_xdg_data_dir returns TRUE for a native file that
\* lies inside one of the system data directories, and FALSE for a file that
\* is not native and for a native file that is neither inside one of them nor
\* one of them itself.
C16_InsideDataDir ==
  xdg.pc = "done" =>
    /\ (xdg.native /\ \E k \in DOMAIN xdg.data_dirs : IsBelow(xdg.file_path, xdg.data_dirs[k]))
         => xdg.ret
    /\ xdg.ret =>
         /\ xdg.native
         /\ \E k \in DOMAIN xdg.data_dirs : IsAtOrBelow(xdg.file_path, xdg.data_dirs[k])

\* C21: for a parse name that starts with the scheme, p is never behind path
\* once a '/' has been found, so that path - p, the length of the hostname, is
\* not negative; and the hostname is the part of the parse name from p up to
\* that '/', or from p to the end without one, and holds no '/'.
C21_HostBeforePath ==
  (dn.function = "display_name_remote" /\ RemoteNamed(dn.file)) =>
    /\ dn.path # NullPtr =>
         /\ dn.p <= dn.path
         /\ dn.file.parse_name[dn.path] = "/"
    /\ dn.pc \in {"return", "done"} =>
         /\ dn.hostname =
              SubSeq(dn.file.parse_name, dn.p,
                     IF dn.path # NullPtr THEN dn.path - 1 ELSE Len(dn.file.parse_name))
         /\ dn.path # NullPtr => Len(dn.hostname) = dn.path - dn.p
         /\ \A i \in DOMAIN dn.hostname : dn.hostname[i] # "/"

\* C21 witness: p was moved behind a user name, and the path holds an '@'
\* before its first dot, which did not move p.
C21_Witness ==
  /\ dn.pc = "done" /\ dn.function = "display_name_remote"
  /\ dn.path # NullPtr
  /\ dn.p > 1 /\ dn.file.parse_name[dn.p - 1] = "@"
  /\ \E i \in (dn.path + 1)..(dn.firstdot - 1) : dn.file.parse_name[i] = "@"
  /\ dn.hostname = <<"h">>

====
